---- MODULE Spec2Model ----
(***************************************************************************)
(* Model of import_excel_to_db (src/app.py): a two-sheet workbook (Holes,  *)
(* Assay) is read, validated and merged into a store with the tables       *)
(* holes and assay under one transaction.  The Cyrillic column labels of   *)
(* the source are transliterated: IMYA, DLINA, GORIZONT, DATA PROHODKI,    *)
(* OBEKT, OT, DO.                                                          *)
(***************************************************************************)
EXTENDS Integers, Sequences, FiniteSets, TLC

VARIABLES
    pc,               \* position inside import_excel_to_db, "idle" or "done"
    excel_path,       \* argument excel_path
    db_path,          \* argument db_path
    book,             \* what is found at excel_path
    db,               \* committed contents of the store: [holes, assay]
    before,           \* contents of the store when the call started
    merge,            \* the transaction's view and the locals of the merge phase
                      \* (hole_name_to_id, errors, loop position)
    xls1,             \* handle of the with-block, line 52
    xls2,             \* handle opened at line 73
    conn,             \* sqlite3 connection, line 132
    result,           \* returned pair (success, diagnostics)
    log,              \* what this call has executed so far
    last_ok,          \* names of the holes sheet of the latest successful earlier call
    perm,             \* a reordering of the holes sheet (specification SpecPerm)
    outcome           \* results of the two imports compared by SpecPerm

vars == <<pc, excel_path, db_path, book, db, before, merge,
          xls1, xls2, conn, result, log, last_ok, perm, outcome>>

----------------------------------------------------------------------------
\* Bounds of the model

MaxHoleRows == 2
MaxAssayRows == 2
MaxStoredAssay == 2
MaxMissing == 1

Names == {"A", "B"}
NULL == "NaN"

----------------------------------------------------------------------------
\* The column contract

required_sheets == <<"Holes", "Assay">>

holes_cols == <<"IMYA", "X", "Y", "Z", "DLINA", "GORIZONT", "DATA PROHODKI">>

assay_cols == <<"OBEKT", "OT", "DO", "Au">>

Range(s) == {s[k] : k \in DOMAIN s}

----------------------------------------------------------------------------
\* Workbooks

\* A header cell: the label with lead/trail blanks around it.
Header(name, lead, trail) == [name |-> name, lead |-> lead, trail |-> trail]

Plain(names) == {Header(n, 0, 0) : n \in names}

\* str(c).strip()
strip(c) == c.name

HoleRow(name, a) ==
    [c \in Range(holes_cols) |-> IF c = "IMYA" THEN name ELSE a]

AssayRow(name, a) ==
    [c \in Range(assay_cols) |-> IF c = "OBEKT" THEN name ELSE a]

Restrict(row, cols) == [c \in (DOMAIN row) \cap cols |-> row[c]]

\* A sheet as parsed: its header cells and its rows (cells keyed by label).
Frame(headers, rows) ==
    [columns |-> headers,
     rows |-> [k \in DOMAIN rows |-> Restrict(rows[k], {strip(c) : c \in headers})]]

SeqsUpTo(S, n) == UNION {[1..k -> S] : k \in 0..n}

\* Rows of the holes sheet: every name, and a second set of values for one of them
HoleRows == {HoleRow(n, "1") : n \in Names} \cup {HoleRow("A", "2")}

AssayRows == {AssayRow(n, "1") : n \in Names}

Book(sheets, bad, hf, af) ==
    [sheet_names |-> sheets, unparsable |-> bad, Holes |-> hf, Assay |-> af]

SampleHoles == <<HoleRow("A", "1")>>

SampleAssay == <<AssayRow("A", "1")>>

\* Well-formed workbooks
GoodBooks ==
    {Book({"Holes", "Assay"}, FALSE,
          Frame(Plain(Range(holes_cols)), hs), Frame(Plain(Range(assay_cols)), as)) :
        hs \in SeqsUpTo(HoleRows, MaxHoleRows), as \in SeqsUpTo(AssayRows, MaxAssayRows)}

\* Workbooks whose headers carry blanks around a label
PaddedBooks ==
    {Book({"Holes", "Assay"}, FALSE,
          Frame(Plain(Range(holes_cols) \ {"X"}) \cup {Header("X", 1, 1)}, SampleHoles),
          Frame(Plain(Range(assay_cols) \ {"Au"}) \cup {Header("Au", 0, 1)}, as)) :
        as \in SeqsUpTo(AssayRows, 1)}

\* Workbooks with empty required cells
NullBooks ==
    {Book({"Holes", "Assay"}, FALSE,
          Frame(Plain(Range(holes_cols)), <<[HoleRow("A", "1") EXCEPT ![hc] = hv]>>),
          Frame(Plain(Range(assay_cols)), <<[AssayRow("A", "1") EXCEPT ![ac] = av]>>)) :
        hc \in {"IMYA", "Y"}, hv \in {NULL, "A"}, ac \in {"Au"}, av \in {NULL, "1"}}

SubsetsUpTo(S, n) == {T \in SUBSET S : Cardinality(T) <= n}

\* Workbooks lacking required columns
MissingColumnBooks ==
    {Book({"Holes", "Assay"}, FALSE,
          Frame(Plain(Range(holes_cols) \ mh), SampleHoles),
          Frame(Plain(Range(assay_cols) \ ma), SampleAssay)) :
        mh \in SubsetsUpTo(Range(holes_cols), MaxMissing),
        ma \in SubsetsUpTo(Range(assay_cols), MaxMissing)}

\* Workbooks lacking a required sheet (other sheets do not matter)
MissingSheetBooks ==
    {Book(s, FALSE, Frame(Plain(Range(holes_cols)), SampleHoles),
                    Frame(Plain(Range(assay_cols)), SampleAssay)) :
        s \in (SUBSET {"Holes", "Assay"}) \ {{"Holes", "Assay"}}}

\* Workbooks with both sheets on which xls.parse raises
UnparsableBooks ==
    {Book({"Holes", "Assay"}, TRUE, Frame(Plain(Range(holes_cols)), SampleHoles),
                                    Frame(Plain(Range(assay_cols)), SampleAssay))}

Books ==
    GoodBooks \cup PaddedBooks \cup NullBooks \cup MissingColumnBooks
        \cup MissingSheetBooks \cup UnparsableBooks

\* A file that is no workbook, and the absence of a file
Corrupt == [kind |-> "corrupt"]
NoFile == [kind |-> "nofile"]

ExcelPaths == {"journal.xlsx", "http://host/journal.xlsx", "missing.xlsx"}
DbPaths == {"database.db", "missing.db"}

\* os.path.isfile
isfile(path) == path \in {"journal.xlsx", "database.db"}

\* What pd.ExcelFile can find at a path
FilesAt(path) == IF path = "missing.xlsx" THEN {NoFile} ELSE Books \cup {Corrupt}

----------------------------------------------------------------------------
\* Validation (lines 52-57, 59-62, 112-128)

Diag(kind) == [kind |-> kind]

MissingSheetDiag(sheet) == [kind |-> "missing_sheet", sheet |-> sheet]

MissingColumnDiag(col, sheet) == [kind |-> "missing_column", col |-> col, sheet |-> sheet]

NullDiag(sheet) == [kind |-> "null_values", sheet |-> sheet]

UnknownHoleDiag(hole_name, row) ==
    [kind |-> "unknown_hole", hole_name |-> hole_name, row |-> row]

\* for sheet in required_sheets: if sheet not in xls.sheet_names: errors.append(...)
SheetErrorsFirstOnly(sheet_names) ==
    LET missing == SelectSeq(required_sheets, LAMBDA s : s \notin sheet_names)
    IN  IF missing = <<>> THEN <<>> ELSE <<MissingSheetDiag(missing[1])>>

SheetErrors(sheet_names) ==
    LET missing == SelectSeq(required_sheets, LAMBDA s : s \notin sheet_names)
    IN  [k \in DOMAIN missing |-> MissingSheetDiag(missing[k])]

\* df.rename(columns=lambda c: str(c).strip(), inplace=True)
rename(df) == [columns |-> {strip(c) : c \in df.columns}, rows |-> df.rows]

\* for col in cols: if col not in df.columns: errors.append(...)
MissingColumnErrors(df, cols, sheet) ==
    LET missing == SelectSeq(cols, LAMBDA c : c \notin df.columns)
    IN  [k \in DOMAIN missing |-> MissingColumnDiag(missing[k], sheet)]

ColumnErrorsHolesOnly(holes_df, assay_df) ==
    MissingColumnErrors(holes_df, holes_cols, "Holes")

\* the two loops of lines 113-118
ColumnErrors(holes_df, assay_df) ==
    MissingColumnErrors(holes_df, holes_cols, "Holes")
        \o MissingColumnErrors(assay_df, assay_cols, "Assay")

\* df[list(cols.keys())].isnull().any().any()
isnull_any(df, cols) ==
    \E k \in DOMAIN df.rows : \E c \in Range(cols) : df.rows[k][c] = NULL

NullErrorsHolesOnly(holes_df, assay_df) ==
    IF isnull_any(holes_df, holes_cols) THEN <<NullDiag("Holes")>> ELSE <<>>

\* lines 123-126
NullErrors(holes_df, assay_df) ==
    (IF isnull_any(holes_df, holes_cols) THEN <<NullDiag("Holes")>> ELSE <<>>)
    \o (IF isnull_any(assay_df, assay_cols) THEN <<NullDiag("Assay")>> ELSE <<>>)

----------------------------------------------------------------------------
\* The store and the merge (lines 130-202)

EmptyStore == [holes |-> {}, assay |-> {}]

Max(S) == CHOOSE m \in S : \A k \in S : k <= m

\* cur.lastrowid of an INSERT: the next rowid of the table
lastrowid(table) == IF table = {} THEN 1 ELSE Max({r.id : r \in table}) + 1

NoMap == [n \in {} |-> 0]

\* lines 138-141
LoadHoleIds(holes) ==
    [n \in {h.name : h \in holes} |-> (CHOOSE h \in holes : h.name = n).id]

\* The state of the merge: the tables as the transaction sees them, the map,
\* the diagnostics, the next row of the running loop and the statements issued.
StartMerge(store) ==
    [holes |-> store.holes, assay |-> store.assay, hole_name_to_id |-> NoMap,
     errors |-> <<>>, i |-> 1, inserted |-> 0, updated |-> 0, assays |-> 0]

NoMerge == StartMerge(EmptyStore)

HoleRecord(id, row) ==
    [id |-> id, name |-> row["IMYA"], x |-> row["X"], y |-> row["Y"], z |-> row["Z"],
     lenght |-> row["DLINA"], level |-> row["GORIZONT"],
     issue_date |-> row["DATA PROHODKI"]]

\* UPDATE holes SET ... WHERE id = ?
UpdateHole(holes, hole_id, row) ==
    {IF h.id = hole_id THEN [HoleRecord(hole_id, row) EXCEPT !.name = h.name] ELSE h :
        h \in holes}

UpsertHoleAlwaysInsert(st, row) ==
    LET hole_id == lastrowid(st.holes)
    IN  [st EXCEPT !.holes = @ \cup {HoleRecord(hole_id, row)},
                   !.hole_name_to_id = (row["IMYA"] :> hole_id) @@ @,
                   !.inserted = @ + 1, !.i = @ + 1]

UpsertHoleForgetId(st, row) ==
    LET name == row["IMYA"]
    IN  IF name \in DOMAIN st.hole_name_to_id
        THEN [st EXCEPT !.holes = UpdateHole(@, st.hole_name_to_id[name], row),
                        !.updated = @ + 1, !.i = @ + 1]
        ELSE [st EXCEPT !.holes = @ \cup {HoleRecord(lastrowid(st.holes), row)},
                        !.inserted = @ + 1, !.i = @ + 1]

UpsertHoleKeepFirst(st, row) ==
    LET name == row["IMYA"]
    IN  IF name \in DOMAIN st.hole_name_to_id
        THEN [st EXCEPT !.updated = @ + 1, !.i = @ + 1]
        ELSE LET hole_id == lastrowid(st.holes)
             IN  [st EXCEPT !.holes = @ \cup {HoleRecord(hole_id, row)},
                            !.hole_name_to_id = (name :> hole_id) @@ @,
                            !.inserted = @ + 1, !.i = @ + 1]

\* one iteration of the loop of lines 145-168
UpsertHole(st, row) ==
    LET name == row["IMYA"]
    IN  IF name \in DOMAIN st.hole_name_to_id
        THEN [st EXCEPT !.holes = UpdateHole(@, st.hole_name_to_id[name], row),
                        !.updated = @ + 1, !.i = @ + 1]
        ELSE LET hole_id == lastrowid(st.holes)
             IN  [st EXCEPT !.holes = @ \cup {HoleRecord(hole_id, row)},
                            !.hole_name_to_id = (name :> hole_id) @@ @,
                            !.inserted = @ + 1, !.i = @ + 1]

AssayRecord(id, hole_id, row) ==
    [id |-> id, hole_id |-> hole_id, from |-> row["OT"], to |-> row["DO"],
     Au |-> row["Au"]]

\* hole_name_to_id.get(hole_name); 0 stands for None
get(map, name) == IF name \in DOMAIN map THEN map[name] ELSE 0

InsertAssayNoContinue(st, row) ==
    LET hole_id == get(st.hole_name_to_id, row["OBEKT"])
    IN  [st EXCEPT !.errors = IF hole_id = 0
                              THEN Append(@, UnknownHoleDiag(row["OBEKT"], (st.i - 1) + 2))
                              ELSE @,
                   !.assay = @ \cup {AssayRecord(lastrowid(st.assay), hole_id, row)},
                   !.assays = @ + 1, !.i = @ + 1]

InsertAssayRowOffByOne(st, row) ==
    LET hole_id == get(st.hole_name_to_id, row["OBEKT"])
    IN  IF hole_id = 0
        THEN [st EXCEPT !.errors = Append(@, UnknownHoleDiag(row["OBEKT"], (st.i - 1) + 1)),
                        !.i = @ + 1]
        ELSE [st EXCEPT !.assay = @ \cup {AssayRecord(lastrowid(st.assay), hole_id, row)},
                        !.assays = @ + 1, !.i = @ + 1]

InsertAssayDeduplicated(st, row) ==
    LET hole_id == get(st.hole_name_to_id, row["OBEKT"])
    IN  IF hole_id = 0
        THEN [st EXCEPT !.errors = Append(@, UnknownHoleDiag(row["OBEKT"], (st.i - 1) + 2)),
                        !.i = @ + 1]
        ELSE IF \E a \in st.assay : [a EXCEPT !.id = 0] = AssayRecord(0, hole_id, row)
             THEN [st EXCEPT !.i = @ + 1]
             ELSE [st EXCEPT !.assay = @ \cup {AssayRecord(lastrowid(st.assay), hole_id, row)},
                             !.assays = @ + 1, !.i = @ + 1]

\* one iteration of the loop of lines 171-186; the row's idx is st.i - 1
InsertAssay(st, row) ==
    LET hole_id == get(st.hole_name_to_id, row["OBEKT"])
    IN  IF hole_id = 0
        THEN [st EXCEPT !.errors = Append(@, UnknownHoleDiag(row["OBEKT"], (st.i - 1) + 2)),
                        !.i = @ + 1]
        ELSE [st EXCEPT !.assay = @ \cup {AssayRecord(lastrowid(st.assay), hole_id, row)},
                        !.assays = @ + 1, !.i = @ + 1]

Outcome(store, success, errs) == [db |-> store, success |-> success, errors |-> errs]

FinalizeNoRollback(st, committed) ==
    IF st.errors # <<>>
    THEN Outcome([holes |-> st.holes, assay |-> st.assay], FALSE, st.errors)
    ELSE Outcome([holes |-> st.holes, assay |-> st.assay], TRUE, <<>>)

FinalizeKeepsErrors(st, committed) ==
    Outcome([holes |-> st.holes, assay |-> st.assay], TRUE, st.errors)

\* lines 188-196: roll back on diagnostics, commit otherwise
Finalize(st, committed) ==
    IF st.errors # <<>>
    THEN Outcome(committed, FALSE, st.errors)
    ELSE Outcome([holes |-> st.holes, assay |-> st.assay], TRUE, <<>>)

\* lines 197-202: the handler of an exception raised after the connection exists
OnException(committed) == Outcome(committed, FALSE, <<Diag("db_error")>>)

----------------------------------------------------------------------------
\* import_excel_to_db, statement by statement

NoResult == [success |-> FALSE, errors |-> <<>>]

NoLog == [parses |-> 0, col_checked |-> FALSE, null_checked |-> FALSE, connected |-> FALSE]

NamesOf(rows) == {rows[k]["IMYA"] : k \in DOMAIN rows}

\* The second handle is closed by no statement: once the function has returned,
\* only the runtime's finalizer can release it, and it may or may not have.
Return(success, errs) ==
    /\ pc' = "done"
    /\ result' = [success |-> success, errors |-> errs]
    /\ xls2' \in (IF xls2 = "open" THEN {"open", "closed"} ELSE {xls2})

\* The calls the model makes: every workbook with both paths naming files, and
\* a sample of workbooks for the other paths.
SampleBooks ==
    MissingColumnBooks \cup MissingSheetBooks \cup UnparsableBooks

Inputs ==
    {<<ep, dp, b>> \in ExcelPaths \X DbPaths \X (Books \cup {Corrupt, NoFile}) :
        /\ b \in FilesAt(ep)
        /\ (isfile(ep) /\ isfile(dp)) \/ b \in SampleBooks \cup {NoFile}}

\* A call of import_excel_to_db(excel_path, db_path)
Call ==
    /\ pc = "idle"
    /\ \E in \in Inputs :
            /\ in[3] \in Books =>
                  Cardinality(db.assay) + Len(in[3].Assay.rows) <= MaxStoredAssay
            /\ excel_path' = in[1]
            /\ db_path' = in[2]
            /\ book' = in[3]
    /\ before' = db
    /\ pc' = "L50"
    /\ UNCHANGED <<db, merge, xls1, xls2, conn, result, log, last_ok, perm, outcome>>

\* lines 50-64: the with-block; leaving it on any path closes its handle
ReadWorkbook ==
    /\ pc = "L50"
    /\ IF book \in {NoFile, Corrupt}
       THEN Return(FALSE, <<Diag("excel_error")>>) /\ UNCHANGED <<xls1, log>>
       ELSE /\ xls1' = "closed"
            /\ LET errs == SheetErrors(book.sheet_names)
               IN  IF errs # <<>>
                   THEN Return(FALSE, errs) /\ UNCHANGED log
                   ELSE /\ log' = [log EXCEPT !.parses = @ + 1]
                        /\ IF book.unparsable
                           THEN Return(FALSE, <<Diag("excel_error")>>)
                           ELSE pc' = "L67" /\ UNCHANGED <<result, xls2>>
    /\ UNCHANGED <<excel_path, db_path, book, db, before, merge, conn, last_ok,
                   perm, outcome>>

\* lines 67-70
CheckFiles ==
    /\ pc = "L67"
    /\ IF ~isfile(excel_path)
       THEN Return(FALSE, <<Diag("excel_not_found")>>)
       ELSE IF ~isfile(db_path)
            THEN Return(FALSE, <<Diag("db_not_found")>>)
            ELSE pc' = "L71" /\ UNCHANGED <<result, xls2>>
    /\ UNCHANGED <<excel_path, db_path, book, db, before, merge, xls1, conn, log,
                   last_ok, perm, outcome>>

\* lines 71-93: the workbook is opened a second time, outside any with-block, and
\* read again; the open or the parse may raise
RereadWorkbook ==
    /\ pc = "L71"
    /\ \/ /\ xls2' = "none"
          /\ pc' = "done"
          /\ result' = [success |-> FALSE, errors |-> <<Diag("excel_open_error")>>]
          /\ UNCHANGED log
       \/ /\ SheetErrors(book.sheet_names) = <<>>
          /\ log' = [log EXCEPT !.parses = @ + 1]
          /\ xls2' \in {"open", "closed"}
          /\ pc' = "done"
          /\ result' = [success |-> FALSE, errors |-> <<Diag("parse_error")>>]
       \/ /\ xls2' = "open"
          /\ LET errs == SheetErrors(book.sheet_names)
             IN  IF errs # <<>>
                 THEN /\ pc' = "done"
                      /\ result' = [success |-> FALSE, errors |-> errs]
                      /\ UNCHANGED log
                 ELSE /\ log' = [log EXCEPT !.parses = @ + 1]
                      /\ pc' = "L113"
                      /\ UNCHANGED result
    /\ UNCHANGED <<excel_path, db_path, book, db, before, merge, xls1, conn,
                   last_ok, perm, outcome>>

holes_df == rename(book.Holes)

assay_df == rename(book.Assay)

\* lines 112-120
CheckColumns ==
    /\ pc = "L113"
    /\ log' = [log EXCEPT !.col_checked = TRUE]
    /\ LET errs == ColumnErrors(holes_df, assay_df)
       IN  IF errs # <<>>
           THEN Return(FALSE, errs)
           ELSE pc' = "L123" /\ UNCHANGED <<result, xls2>>
    /\ UNCHANGED <<excel_path, db_path, book, db, before, merge, xls1, conn,
                   last_ok, perm, outcome>>

\* lines 122-128
CheckNulls ==
    /\ pc = "L123"
    /\ log' = [log EXCEPT !.null_checked = TRUE]
    /\ LET errs == NullErrors(holes_df, assay_df)
       IN  IF errs # <<>>
           THEN Return(FALSE, errs)
           ELSE pc' = "L132" /\ UNCHANGED <<result, xls2>>
    /\ UNCHANGED <<excel_path, db_path, book, db, before, merge, xls1, conn,
                   last_ok, perm, outcome>>

\* lines 131-141: connect, cursor, PRAGMA, SELECT id, name FROM holes.  When
\* connect itself raises there is no conn to roll back or close (line 199).
Connect ==
    /\ pc = "L132"
    /\ \/ /\ pc' = "L145"
          /\ conn' = "open"
          /\ log' = [log EXCEPT !.connected = TRUE]
          /\ merge' = [StartMerge(db) EXCEPT !.hole_name_to_id = LoadHoleIds(db.holes)]
          /\ UNCHANGED <<result, xls2>>
       \/ /\ Return(FALSE, OnException(db).errors)
          /\ UNCHANGED <<conn, log, merge>>
    /\ UNCHANGED <<excel_path, db_path, book, db, before, xls1, last_ok, perm, outcome>>

\* lines 145-168, one row
HolesLoop ==
    /\ pc = "L145"
    /\ IF merge.i <= Len(holes_df.rows)
       THEN merge' = UpsertHole(merge, holes_df.rows[merge.i]) /\ pc' = "L145"
       ELSE merge' = [merge EXCEPT !.i = 1] /\ pc' = "L171"
    /\ UNCHANGED <<excel_path, db_path, book, db, before, xls1, xls2, conn, result, log,
                   last_ok, perm, outcome>>

\* lines 171-186, one row
AssayLoop ==
    /\ pc = "L171"
    /\ IF merge.i <= Len(assay_df.rows)
       THEN merge' = InsertAssay(merge, assay_df.rows[merge.i]) /\ pc' = "L171"
       ELSE merge' = merge /\ pc' = "L188"
    /\ UNCHANGED <<excel_path, db_path, book, db, before, xls1, xls2, conn, result, log,
                   last_ok, perm, outcome>>

\* lines 188-196
Finish ==
    /\ pc = "L188"
    /\ LET out == Finalize(merge, db)
       IN  /\ db' = out.db
           /\ Return(out.success, out.errors)
    /\ conn' = "closed"
    /\ UNCHANGED <<excel_path, db_path, book, before, merge, xls1, log, last_ok,
                   perm, outcome>>

\* lines 197-202: a statement on the open connection raises
DbException ==
    /\ pc \in {"L145", "L171", "L188"}
    /\ LET out == OnException(db)
       IN  /\ db' = out.db
           /\ Return(out.success, out.errors)
    /\ conn' = "closed"
    /\ UNCHANGED <<excel_path, db_path, book, before, merge, xls1, log, last_ok,
                   perm, outcome>>

\* The caller takes the returned pair; the frame of the call is gone.
Exit ==
    /\ pc = "done"
    /\ pc' = "idle"
    /\ last_ok' = IF result.success THEN NamesOf(book.Holes.rows) ELSE last_ok
    /\ excel_path' = "journal.xlsx"
    /\ db_path' = "database.db"
    /\ book' = NoFile
    /\ before' = db
    /\ merge' = NoMerge
    /\ xls1' = "none" /\ xls2' = "none" /\ conn' = "none"
    /\ result' = NoResult
    /\ log' = NoLog
    /\ UNCHANGED <<db, perm, outcome>>

Init ==
    /\ pc = "idle"
    /\ excel_path = "journal.xlsx"
    /\ db_path = "database.db"
    /\ book = NoFile
    /\ db = EmptyStore
    /\ before = EmptyStore
    /\ merge = NoMerge
    /\ xls1 = "none" /\ xls2 = "none" /\ conn = "none"
    /\ result = NoResult
    /\ log = NoLog
    /\ last_ok = {}
    /\ perm = <<>>
    /\ outcome = <<>>

Next ==
    \/ Call
    \/ ReadWorkbook
    \/ CheckFiles
    \/ RereadWorkbook
    \/ CheckColumns
    \/ CheckNulls
    \/ Connect
    \/ HolesLoop
    \/ AssayLoop
    \/ Finish
    \/ DbException
    \/ Exit

Spec == Init /\ [][Next]_vars

----------------------------------------------------------------------------
\* import_excel_to_db as a function of the store and the workbook, for a call in
\* which both paths name files and no statement raises.

RECURSIVE MergeHoles(_, _)
MergeHoles(st, rows) ==
    IF st.i > Len(rows) THEN [st EXCEPT !.i = 1] ELSE MergeHoles(UpsertHole(st, rows[st.i]), rows)

RECURSIVE MergeAssay(_, _)
MergeAssay(st, rows) ==
    IF st.i > Len(rows) THEN st ELSE MergeAssay(InsertAssay(st, rows[st.i]), rows)

Import(store, b) ==
    IF b \in {NoFile, Corrupt} THEN Outcome(store, FALSE, <<Diag("excel_error")>>)
    ELSE IF SheetErrors(b.sheet_names) # <<>>
         THEN Outcome(store, FALSE, SheetErrors(b.sheet_names))
    ELSE IF b.unparsable THEN Outcome(store, FALSE, <<Diag("excel_error")>>)
    ELSE IF ColumnErrors(rename(b.Holes), rename(b.Assay)) # <<>>
         THEN Outcome(store, FALSE, ColumnErrors(rename(b.Holes), rename(b.Assay)))
    ELSE IF NullErrors(rename(b.Holes), rename(b.Assay)) # <<>>
         THEN Outcome(store, FALSE, NullErrors(rename(b.Holes), rename(b.Assay)))
    ELSE LET start == [StartMerge(store) EXCEPT
                           !.hole_name_to_id = LoadHoleIds(store.holes)]
             holes == MergeHoles(start, rename(b.Holes).rows)
         IN  Finalize(MergeAssay(holes, rename(b.Assay).rows), store)

\* The stores one import leaves behind
PriorStores == {Import(EmptyStore, b).db : b \in GoodBooks}

Reorderings(rows) ==
    {[k \in DOMAIN rows |-> rows[p[k]]] :
        p \in {q \in [DOMAIN rows -> DOMAIN rows] : \A k \in DOMAIN rows : \E m \in DOMAIN rows : q[m] = k}}

Reordered(b, rows) == [b EXCEPT !.Holes = [@ EXCEPT !.rows = rows]]

\* Two calls from the same store: the workbook, and the workbook with its holes
\* sheet reordered
InitPerm ==
    /\ pc = "idle"
    /\ excel_path = "journal.xlsx"
    /\ db_path = "database.db"
    /\ book \in GoodBooks
    /\ perm \in Reorderings(rename(book.Holes).rows)
    /\ db \in PriorStores
    /\ Cardinality(db.assay) + Len(book.Assay.rows) <= MaxStoredAssay
    /\ before = db
    /\ merge = NoMerge
    /\ xls1 = "none" /\ xls2 = "none" /\ conn = "none"
    /\ result = NoResult
    /\ log = NoLog
    /\ last_ok = {}
    /\ outcome = <<>>

ImportBoth ==
    /\ pc = "idle"
    /\ outcome' = <<Import(db, book), Import(db, Reordered(book, perm))>>
    /\ pc' = "done"
    /\ UNCHANGED <<excel_path, db_path, book, db, before, merge, xls1, xls2, conn,
                   result, log, last_ok, perm>>

NextPerm == ImportBoth

SpecPerm == InitPerm /\ [][NextPerm]_vars

----------------------------------------------------------------------------
\* Properties

Returned == pc = "done"

Writes == merge.inserted + merge.updated + merge.assays

IsBook == book \in Books

BothSheets == IsBook /\ {"Holes", "Assay"} \subseteq book.sheet_names

\* Required columns absent from a sheet as the workbook holds it
MissingIn(frame, cols) == {c \in Range(cols) : \A h \in frame.columns : h.name # c}

MissingColumns ==
    MissingIn(book.Holes, holes_cols) \cup MissingIn(book.Assay, assay_cols)

EmptyCellIn(frame) == \E k \in DOMAIN frame.rows : \E c \in DOMAIN frame.rows[k] :
                          frame.rows[k][c] = NULL

EmptyCells == EmptyCellIn(book.Holes) \/ EmptyCellIn(book.Assay)

\* The second read of the workbook (lines 71-93) raised
RereadFailed ==
    result.errors \in {<<Diag("excel_open_error")>>, <<Diag("parse_error")>>}

\* A call that ran without raising agrees with Import
StepsAgreeWithImport ==
    (Returned /\ isfile(excel_path) /\ isfile(db_path)
        /\ ~RereadFailed /\ result.errors # <<Diag("db_error")>>)
    => Import(before, book) = Outcome(db, result.success, result.errors)

\* C1: whenever the call returns success = false, both tables hold exactly what
\* they held when the call started.
C1_Atomicity == (Returned /\ ~result.success) => db = before

\* C1 witness: a failed call whose transaction had inserted a hole, updated a
\* hole and inserted an assay row before an unresolved row was met.
C1_Witness ==
    /\ Returned /\ ~result.success
    /\ merge.errors # <<>>
    /\ merge.inserted > 0 /\ merge.updated > 0 /\ merge.assays > 0
    /\ [holes |-> merge.holes, assay |-> merge.assay] # before

\* C2: the connection is opened, and statements are issued on it, only in calls
\* whose workbook lacks no required column and has no empty required cell, after
\* both checks have run; a call whose workbook fails a check returns failure
\* with the store untouched.
C2_ValidationBeforeConnect ==
    /\ (log.connected \/ conn # "none" \/ Writes > 0) =>
          /\ log.col_checked /\ log.null_checked
          /\ MissingColumns = {} /\ ~EmptyCells
    /\ (Returned /\ BothSheets /\ (MissingColumns # {} \/ EmptyCells)) =>
          /\ ~result.success
          /\ ~log.connected /\ conn = "none" /\ Writes = 0
          /\ db = before

\* C2 witness: a call that reached the null check, found an empty cell on the
\* Assay sheet only, and returned.
C2_Witness ==
    /\ Returned /\ log.null_checked
    /\ ~EmptyCellIn(book.Holes) /\ EmptyCellIn(book.Assay)
    /\ ~log.connected

\* C3: on every exit the returned pair has success true exactly when the list
\* of diagnostics is empty.
C3_SuccessIffNoDiagnostics ==
    Returned => (result.success <=> result.errors = <<>>)

\* C3 witness: a return from the merge phase with diagnostics.
C3_Witness ==
    Returned /\ log.connected /\ merge.errors # <<>> /\ ~result.success

\* C4: a successful import whose holes sheet has the same set of names as the
\* latest successful import before it leaves the number of hole rows and every
\* hole's identity unchanged, updates on every row and inserts no hole.
C4_IdempotentUpsert ==
    (Returned /\ result.success /\ IsBook /\ last_ok = NamesOf(book.Holes.rows)
        /\ last_ok # {}) =>
        /\ Cardinality(db.holes) = Cardinality(before.holes)
        /\ {<<h.id, h.name>> : h \in db.holes} = {<<h.id, h.name>> : h \in before.holes}
        /\ merge.inserted = 0
        /\ merge.updated = Len(book.Holes.rows)

\* C4 witness: a second successful import of two names with other values.
C4_Witness ==
    /\ Returned /\ result.success /\ IsBook
    /\ last_ok = NamesOf(book.Holes.rows)
    /\ Cardinality(last_ok) = 2
    /\ db.holes # before.holes

\* C5: no two hole rows share a name, in the committed store and in the view of
\* the running transaction.
C5_NamesUnique ==
    /\ \A g, h \in db.holes : g.name = h.name => g = h
    /\ \A g, h \in merge.holes : g.name = h.name => g = h

\* C5 witness: a committed batch whose holes sheet repeats a name and names a
\* hole that was already stored.
C5_Witness ==
    /\ Returned /\ result.success /\ IsBook
    /\ Len(book.Holes.rows) > Cardinality(NamesOf(book.Holes.rows))
    /\ NamesOf(book.Holes.rows) \subseteq {h.name : h \in before.holes}

\* C6: every assay row references an existing hole row, in the committed store
\* and in the view of the running transaction, and every assay row a call has
\* inserted carries an identity of its name-to-identity map.
C6_ReferentialIntegrity ==
    /\ \A a \in db.assay : \E h \in db.holes : h.id = a.hole_id
    /\ \A a \in merge.assay : \E h \in merge.holes : h.id = a.hole_id
    /\ conn # "none" =>
          \A a \in merge.assay \ before.assay :
              \E n \in DOMAIN merge.hole_name_to_id : merge.hole_name_to_id[n] = a.hole_id

\* C6 witness: a committed assay row that references a hole created by the same
\* call.
C6_Witness ==
    /\ Returned /\ result.success
    /\ \E a \in db.assay \ before.assay :
          \E h \in db.holes \ before.holes : h.id = a.hole_id

\* How the store looks to a reader who joins assay rows to holes by name
ByName(store) ==
    [holes |-> {[h EXCEPT !.id = 0] : h \in store.holes},
     assay |-> {[a EXCEPT !.hole_id = 0] : a \in store.assay},
     refs  |-> {<<p[1].id, p[2].name>> :
                   p \in {q \in store.assay \X store.holes : q[2].id = q[1].hole_id}}]

NoDuplicateNames(rows) == Cardinality(NamesOf(rows)) = Len(rows)

LastRowOf(rows, name) ==
    rows[Max({k \in DOMAIN rows : rows[k]["IMYA"] = name})]

Compared == outcome # <<>>

\* C7 as stated: two orders of a holes sheet without duplicate names give the
\* same flag, the same diagnostics and the same store contents.
C7_SameStoreContents ==
    (Compared /\ NoDuplicateNames(perm)) => outcome[1] = outcome[2]

\* C7 amended: two orders of a holes sheet without duplicate names give the same
\* flag, the same diagnostics and the same store once hole rows are compared by
\* name and assay rows by the name of their hole; and after a successful import
\* every name of the sheet is stored with the values of its last row.
C7_OrderIndependentByName ==
    Compared =>
        /\ NoDuplicateNames(perm) =>
              /\ outcome[1].success = outcome[2].success
              /\ outcome[1].errors = outcome[2].errors
              /\ ByName(outcome[1].db) = ByName(outcome[2].db)
        /\ outcome[1].success =>
              \A n \in NamesOf(book.Holes.rows) :
                 \E h \in outcome[1].db.holes :
                    [h EXCEPT !.id = 0] = HoleRecord(0, LastRowOf(book.Holes.rows, n))

\* C7 witness: a successful import of two new holes compared with the import of
\* the same two rows in the other order, the assay sheet referencing them.
C7_Witness ==
    /\ Compared /\ NoDuplicateNames(perm)
    /\ perm # book.Holes.rows
    /\ outcome[1].success
    /\ Cardinality(outcome[1].db.holes) = Cardinality(db.holes) + 2
    /\ outcome[1].db.assay # db.assay

\* C8: when the call has returned (with success, a missing sheet, a missing
\* column, null values, an unresolved assay row or an exception on the
\* connection), no workbook handle and no connection that it opened is still
\* open.
C8_HandlesReleased ==
    (Returned /\ ~RereadFailed) => (xls1 # "open" /\ xls2 # "open" /\ conn # "open")

ColumnDiagnosticsExact ==
    /\ ~result.success
    /\ Len(result.errors) = Cardinality(MissingColumns)
    /\ \A c \in MissingIn(book.Holes, holes_cols) :
          \E k \in DOMAIN result.errors : result.errors[k] = MissingColumnDiag(c, "Holes")
    /\ \A c \in MissingIn(book.Assay, assay_cols) :
          \E k \in DOMAIN result.errors : result.errors[k] = MissingColumnDiag(c, "Assay")
    /\ ~log.null_checked
    /\ ~log.connected

\* C9 as stated: when both sheets exist (and are read without an error) and a
\* required column is missing, the diagnostics are exactly one entry per missing
\* column of either sheet, the null check is skipped and the call fails.
C9_ColumnsReported ==
    (Returned /\ BothSheets /\ MissingColumns # {}
        /\ ~book.unparsable /\ ~RereadFailed)
    => ColumnDiagnosticsExact

\* C9 amended: the same, for calls whose two paths name existing files.
C9_ColumnsReportedWhenReached ==
    (Returned /\ BothSheets /\ MissingColumns # {}
        /\ ~book.unparsable /\ ~RereadFailed
        /\ isfile(excel_path) /\ isfile(db_path))
    => ColumnDiagnosticsExact

\* C9 witness: one column missing on each sheet, two diagnostics returned.
C9_Witness ==
    /\ Returned /\ BothSheets /\ log.col_checked
    /\ MissingIn(book.Holes, holes_cols) # {}
    /\ MissingIn(book.Assay, assay_cols) # {}
    /\ Len(result.errors) = 2

\* C10: when a required sheet is absent the call fails with exactly one
\* diagnostic per missing sheet naming it, parses no sheet, runs no column or
\* null check and leaves the store untouched.
C10_MissingSheetFailFast ==
    (Returned /\ IsBook /\ ~BothSheets) =>
        /\ ~result.success
        /\ Len(result.errors) = Cardinality({"Holes", "Assay"} \ book.sheet_names)
        /\ \A sh \in {"Holes", "Assay"} \ book.sheet_names :
              \E k \in DOMAIN result.errors : result.errors[k] = MissingSheetDiag(sh)
        /\ log.parses = 0
        /\ ~log.col_checked /\ ~log.null_checked
        /\ ~log.connected /\ Writes = 0
        /\ db = before

\* C10 witness: a workbook with neither sheet, two diagnostics returned.
C10_Witness ==
    /\ Returned /\ IsBook
    /\ book.sheet_names = {}
    /\ Len(result.errors) = 2

\* The call went through both loops of the merge and no statement raised
MergeCompleted ==
    Returned /\ log.connected /\ result.errors # <<Diag("db_error")>>

\* Positions (1-based) of the assay rows whose hole name is neither stored
\* before the call nor on any row of the holes sheet
Unresolved ==
    {k \in DOMAIN book.Assay.rows :
        book.Assay.rows[k]["OBEKT"] \notin
            {h.name : h \in before.holes} \cup NamesOf(book.Holes.rows)}

\* The j-th unresolved position in row order
NthUnresolved(j) ==
    CHOOSE k \in Unresolved : Cardinality({m \in Unresolved : m <= k}) = j

\* C11: when the merge has run, the returned diagnostics are, in assay row
\* order, one entry for each assay row whose hole name is neither stored before
\* the call nor on the holes sheet, each with that name and the row number
\* (0-based index + 2); rows after an unresolved row are still processed.
C11_ReferentialDiagnostics ==
    MergeCompleted =>
        /\ Len(result.errors) = Cardinality(Unresolved)
        /\ \A j \in DOMAIN result.errors :
              result.errors[j] =
                 UnknownHoleDiag(book.Assay.rows[NthUnresolved(j)]["OBEKT"],
                                 (NthUnresolved(j) - 1) + 2)
        /\ merge.i = Len(book.Assay.rows) + 1
        /\ merge.assays = Len(book.Assay.rows) - Cardinality(Unresolved)

\* C11 witness: an unresolved first assay row reported as row 2, and the
\* resolved row after it still inserted into the transaction.
C11_Witness ==
    /\ MergeCompleted
    /\ Len(book.Assay.rows) = 2
    /\ Unresolved = {1}
    /\ result.errors = <<UnknownHoleDiag(book.Assay.rows[1]["OBEKT"], 2)>>
    /\ merge.assays = 1

\* C12: when the call returns success, the assay table has grown by exactly the
\* number of rows of the assay sheet, the holes table by exactly the number of
\* distinct names of the holes sheet that were not stored before, and every hole
\* and assay row stored before is still stored.
C12_SuccessfulImportEffect ==
    (Returned /\ result.success /\ IsBook) =>
        /\ Cardinality(db.assay) = Cardinality(before.assay) + Len(book.Assay.rows)
        /\ Cardinality(db.holes) =
              Cardinality(before.holes)
                 + Cardinality(NamesOf(book.Holes.rows) \ {h.name : h \in before.holes})
        /\ \A h \in before.holes : \E g \in db.holes : g.id = h.id /\ g.name = h.name
        /\ before.assay \subseteq db.assay

\* C12 witness: a successful import into a store that already holds a hole and
\* an assay row equal (but for its id) to a row of the sheet: the hole is
\* updated, a new hole is inserted and the assay row is stored a second time.
C12_Witness ==
    /\ Returned /\ result.success /\ IsBook
    /\ merge.updated > 0 /\ merge.inserted > 0
    /\ \E a \in before.assay : \E b \in db.assay \ before.assay :
          [a EXCEPT !.id = 0] = [b EXCEPT !.id = 0]

====
